---- MODULE Spec2Model ----
(***************************************************************************)
(* RocchioClassifier (src/RocchioClassifier.py): a centroid classifier     *)
(* over unigram, bigram and trigram documents.                             *)
(*                                                                         *)
(* Floats are fixed-point integers in units of 1.0e-6 (One is 1.0), so     *)
(* EPSILON is 1.  A Python dict is a function; the empty dict is <<>>.     *)
(* A call that can raise returns [raised, val]; raised = "none" on a       *)
(* normal return.                                                          *)
(***************************************************************************)
EXTENDS Integers, Sequences, FiniteSets, TLC

\* ---- bounds of the model ----
MaxBatch == 2
MaxDocs == 2

\* ---- numbers ----
One == 1000000
EPSILON == 1
DefaultWeightBigrams == 2031800
DefaultWeightTrigrams == 4433700
DefaultThreshold == 1944200

Orders == {1, 2, 3}
Words == {"a", "b"}
RawTokens == Words \cup {"?"}
\* the raw messages of the training examples: one without a word, one of one
\* word and one of three words (one of them repeated) around a non-word;
\* classify is given these and the empty string
TrainMessages == {<<"?">>, <<"a">>, <<"b", "?", "a", "a">>}
Messages == TrainMessages \cup {<<>>}
Examples == BOOLEAN \X TrainMessages
TrainingSets == UNION {[1..k -> Examples] : k \in 0..MaxBatch}
WeightBigramsValues == {0 - One, One}
WeightTrigramsValues == {0}
ThresholdValues == {One \div 2}

VARIABLES pc, pos_documents, neg_documents, vocab, pos_centroid, neg_centroid,
          weight_bigrams, weight_trigrams, threshold, lastCall, emptyTrainRun

fields == <<pos_documents, neg_documents, vocab, pos_centroid, neg_centroid>>
params == <<weight_bigrams, weight_trigrams, threshold>>
vars == <<pc, pos_documents, neg_documents, vocab, pos_centroid, neg_centroid,
          weight_bigrams, weight_trigrams, threshold, lastCall, emptyTrainRun>>

\* ---- results of calls ----
Ok(v) == [raised |-> "none", val |-> v]
Raise(e) == [raised |-> e, val |-> <<>>]

\* ---- arithmetic ----
RECURSIVE SumSet(_)
SumSet(S) ==
    IF S = {} THEN 0
    ELSE LET x == CHOOSE y \in S : TRUE IN x + SumSet(S \ {x})

RECURSIVE SumOver(_, _)
SumOver(f, S) ==
    IF S = {} THEN 0
    ELSE LET x == CHOOSE y \in S : TRUE IN f[x] + SumOver(f, S \ {x})

\* math.log(k, 10) of an integer k >= 1, in units of 1.0e-6
Log10Table == <<0, 301030, 477121, 602060, 698970, 778151, 845098, 903090, 954243>>
RECURSIVE Log10(_)
Log10(k) ==
    IF k <= Len(Log10Table) THEN Log10Table[k] ELSE One + Log10(k \div 10)

\* a * b of two fixed-point values, formed from their thousands so that no
\* intermediate product leaves the 32-bit integers of TLC
Mul(a, b) ==
    LET ah == a \div 1000
        al == a % 1000
        bh == b \div 1000
        bl == b % 1000
    IN  ah * bh + (ah * bl + al * bh) \div 1000 + (al * bl) \div One

\* a / b of two fixed-point values (b # 0) by long division, six decimals
Abs(x) == IF x < 0 THEN 0 - x ELSE x
RECURSIVE FracDigits(_, _, _)
FracDigits(r, b, k) ==
    IF k = 0 THEN 0
    ELSE LET d == (r * 10) \div b
         IN  d * (IF k = 6 THEN 100000 ELSE IF k = 5 THEN 10000 ELSE IF k = 4 THEN 1000
                  ELSE IF k = 3 THEN 100 ELSE IF k = 2 THEN 10 ELSE 1)
             + FracDigits((r * 10) % b, b, k - 1)
Div(a, b) ==
    LET q == (Abs(a) \div Abs(b)) * One + FracDigits(Abs(a) % Abs(b), Abs(b), 6)
    IN  IF (a < 0) = (b < 0) THEN q ELSE 0 - q

\* math.sqrt of a fixed-point x >= 0
RECURSIVE Isqrt(_, _, _)
Isqrt(x, lo, hi) ==
    IF hi - lo <= 1 THEN lo
    ELSE LET mid == (lo + hi) \div 2
         IN  IF mid * mid <= x THEN Isqrt(x, mid, hi) ELSE Isqrt(x, lo, mid)
Sqrt(x) == 1000 * Isqrt(x, 0, 46341)

\* math.log(x) of a fixed-point x > 0: first-order 2(x-1)/(x+1), which keeps
\* the sign of the logarithm and is 0.0 exactly at x = 1.0
Ln(x) == Div(2 * (x - One), x + One)

\* ---- preprocessing (external collaborator) ----
extract_words(message) == SelectSeq(message, LAMBDA t : t \in Words)

get_ngrams(n, words) ==
    IF Len(words) < n THEN <<>>
    ELSE [i \in 1..(Len(words) - n + 1) |-> SubSeq(words, i, i + n - 1)]

\* ---- static methods ----
Terms(doc) == {doc[i] : i \in DOMAIN doc}
Count(t, doc) == Cardinality({i \in DOMAIN doc : doc[i] = t})

get_weights(wb, wt) ==
    LET weights == [n \in Orders |-> IF n = 1 THEN One ELSE IF n = 2 THEN wb ELSE wt]
        total == SumOver(weights, Orders)
    IN  IF total = 0 THEN Raise("ZeroDivisionError")
        ELSE Ok([n \in Orders |-> Div(weights[n], total)])

build_inv_index(documents) ==
    [word \in UNION {Terms(documents[i]) : i \in DOMAIN documents} |-> <<>>]

compute_tfidf(documents) ==
    LET inv_index == build_inv_index(documents)
        N == Len(documents)
        tf(word, idx) == One + Log10(inv_index[word][idx])
        idf(word) == Log10(N) - Log10(Cardinality(DOMAIN inv_index[word]))
        tfidf == [word \in {w \in DOMAIN inv_index : DOMAIN inv_index[w] # {}} |->
                    [idx \in DOMAIN inv_index[word] |->
                        Mul(tf(word, idx), idf(word))]]
        doc_idxs == UNION {DOMAIN tfidf[w] : w \in DOMAIN tfidf}
        sq(idx) == [w \in {v \in DOMAIN tfidf : idx \in DOMAIN tfidf[v]} |->
                        Mul(tfidf[w][idx], tfidf[w][idx])]
        tfidf_l2norm == [idx \in doc_idxs |-> Sqrt(SumOver(sq(idx), DOMAIN sq(idx)))]
    IN  IF N = 0 THEN Raise("ValueError")
        ELSE IF \E w \in DOMAIN inv_index : Cardinality(DOMAIN inv_index[w]) = 0
             THEN Raise("ValueError")
        ELSE IF \E w \in DOMAIN inv_index : \E idx \in DOMAIN inv_index[w] :
                    inv_index[w][idx] <= 0
             THEN Raise("ValueError")
        ELSE Ok([tfidf |-> tfidf, tfidf_l2norm |-> tfidf_l2norm])

get_centroid(vocabulary, documents) ==
    LET r == compute_tfidf(documents)
        N == Len(documents)
    IN  IF r.raised # "none" THEN r
        ELSE Ok([word \in DOMAIN r.val.tfidf |->
                    Div(SumSet(DOMAIN r.val.tfidf[word]) * One, N * One)])

get_query_vec(ngrams) ==
    [word \in Terms(ngrams) |-> Log10(Count(word, ngrams)) + One]

get_distance(centroid, query_vec) ==
    LET centroid_vec == [word \in DOMAIN query_vec |->
                            IF word \in DOMAIN centroid THEN centroid[word] ELSE 0]
        prod == [word \in DOMAIN query_vec |->
                    Mul(query_vec[word], centroid_vec[word])]
    IN  SumOver(prod, DOMAIN query_vec)

\* ---- instance methods ----
add_example_noskip(st, cls, message) ==
    LET words == extract_words(message)
        grow(docs) == [n \in Orders |-> Append(docs[n], get_ngrams(n, words))]
    IN  [pos_documents |-> IF cls THEN grow(st.pos_documents) ELSE st.pos_documents,
         neg_documents |-> IF cls THEN st.neg_documents ELSE grow(st.neg_documents),
         vocab |-> [n \in Orders |-> st.vocab[n] \cup Terms(get_ngrams(n, words))]]

add_example_posvocab(st, cls, message) ==
    LET words == extract_words(message)
        grow(docs) == [n \in Orders |-> Append(docs[n], get_ngrams(n, words))]
    IN  IF words = <<>> THEN st
        ELSE [pos_documents |-> IF cls THEN grow(st.pos_documents) ELSE st.pos_documents,
              neg_documents |-> IF cls THEN st.neg_documents ELSE grow(st.neg_documents),
              vocab |-> IF cls THEN [n \in Orders |->
                                        st.vocab[n] \cup Terms(get_ngrams(n, words))]
                        ELSE st.vocab]

add_example(st, cls, message) ==
    LET words == extract_words(message)
        grow(docs) == [n \in Orders |-> Append(docs[n], get_ngrams(n, words))]
    IN  IF words = <<>> THEN st
        ELSE [pos_documents |-> IF cls THEN grow(st.pos_documents) ELSE st.pos_documents,
              neg_documents |-> IF cls THEN st.neg_documents ELSE grow(st.neg_documents),
              vocab |-> [n \in Orders |-> st.vocab[n] \cup Terms(get_ngrams(n, words))]]

RECURSIVE add_examples(_, _)
add_examples(st, training_data) ==
    IF training_data = <<>> THEN st
    ELSE add_examples(add_example(st, Head(training_data)[1], Head(training_data)[2]),
                      Tail(training_data))

\* The six assignments of train's second loop, in order: step 2n-1 sets
\* pos_centroid[n], step 2n sets neg_centroid[n]; a raise leaves the
\* assignments before it in place and abandons the rest.
centroid_steps(st) ==
    [k \in 1..6 |->
        LET n == (k + 1) \div 2
        IN  get_centroid(st.vocab[n],
                IF k % 2 = 1 THEN st.pos_documents[n] ELSE st.neg_documents[n])]

first_raise(steps) ==
    IF \E k \in 1..6 : steps[k].raised # "none"
    THEN CHOOSE k \in 1..6 : /\ steps[k].raised # "none"
                             /\ \A j \in 1..(k - 1) : steps[j].raised = "none"
    ELSE 7

classify_score(pcen, ncen, wb, wt, th, words) ==
    LET query_vecs == [n \in Orders |-> get_query_vec(get_ngrams(n, words))]
        weights == get_weights(wb, wt)
        wd(centroid) ==
            LET part == [n \in Orders |->
                            Mul(get_distance(centroid[n], query_vecs[n]), weights.val[n])]
            IN  SumOver(part, Orders)
        pos_distance == wd(pcen)
        neg_distance == wd(ncen)
        diff == Div(pos_distance + EPSILON, neg_distance + EPSILON)
    IN  IF weights.raised # "none" THEN Raise(weights.raised)
        ELSE IF neg_distance + EPSILON = 0 THEN Raise("ZeroDivisionError")
        ELSE IF diff <= 0 THEN Raise("ValueError")
        ELSE Ok(<<diff > th, Ln(diff)>>)

classify_result_noguard(pcen, ncen, wb, wt, th, message) ==
    classify_score(pcen, ncen, wb, wt, th, extract_words(message))

classify_result(pcen, ncen, wb, wt, th, message) ==
    LET words == extract_words(message)
    IN  IF words = <<>> THEN Ok(<<FALSE, 0>>)
        ELSE classify_score(pcen, ncen, wb, wt, th, words)

\* ---- the state machine ----
Init ==
    /\ pc = "new"
    /\ pos_documents = [n \in Orders |-> <<>>]
    /\ neg_documents = [n \in Orders |-> <<>>]
    /\ vocab = [n \in Orders |-> {}]
    /\ pos_centroid = [n \in Orders |-> <<>>]
    /\ neg_centroid = [n \in Orders |-> <<>>]
    /\ weight_bigrams = DefaultWeightBigrams
    /\ weight_trigrams = DefaultWeightTrigrams
    /\ threshold = DefaultThreshold
    /\ lastCall = [op |-> "new", arg |-> <<>>, raised |-> "none", ret |-> <<>>]
    /\ emptyTrainRun = 0

train(op, training_data) ==
    \E st \in {add_examples([pos_documents |-> pos_documents,
                             neg_documents |-> neg_documents,
                             vocab |-> vocab], training_data)} :
        /\ Len(st.pos_documents[1]) + Len(st.neg_documents[1]) <= MaxDocs
        /\ \E steps \in {centroid_steps(st)} : \E fr \in {first_raise(steps)} :
            /\ pos_documents' = st.pos_documents
            /\ neg_documents' = st.neg_documents
            /\ vocab' = st.vocab
            /\ pos_centroid' = [n \in Orders |->
                    IF 2 * n - 1 < fr THEN steps[2 * n - 1].val ELSE pos_centroid[n]]
            /\ neg_centroid' = [n \in Orders |->
                    IF 2 * n < fr THEN steps[2 * n].val ELSE neg_centroid[n]]
            /\ lastCall' = [op |-> op, arg |-> training_data,
                            raised |-> IF fr = 7 THEN "none" ELSE steps[fr].raised,
                            ret |-> <<>>]
        /\ emptyTrainRun' = IF training_data # <<>> THEN 0
                            ELSE IF emptyTrainRun < 2 THEN emptyTrainRun + 1 ELSE 2
        /\ UNCHANGED params

\* __init__: the fields are those of Init; the constructor then trains.  The
\* instance outlives a raise of that call (a subclass constructor or a handler
\* holding self goes on using it), so its methods stay callable afterwards.
Construct ==
    /\ pc = "new"
    /\ pc' = "live"
    /\ \E training_data \in TrainingSets : train("__init__", training_data)

Train ==
    /\ pc = "live"
    /\ UNCHANGED pc
    /\ \E training_data \in TrainingSets : train("train", training_data)

Classify_writeback ==
    /\ pc = "live"
    /\ \E message \in Messages :
        LET r == classify_result(pos_centroid, neg_centroid,
                                 weight_bigrams, weight_trigrams, threshold, message)
            w == get_weights(weight_bigrams, weight_trigrams)
        IN  /\ lastCall' = [op |-> "classify", arg |-> message,
                            raised |-> r.raised, ret |-> r.val]
            /\ weight_bigrams' = IF extract_words(message) # <<>> /\ w.raised = "none"
                                 THEN w.val[2] ELSE weight_bigrams
    /\ emptyTrainRun' = 0
    /\ UNCHANGED <<pc, fields, weight_trigrams, threshold>>

Classify ==
    /\ pc = "live"
    /\ \E message \in Messages :
        LET r == classify_result(pos_centroid, neg_centroid,
                                 weight_bigrams, weight_trigrams, threshold, message)
        IN  lastCall' = [op |-> "classify", arg |-> message,
                         raised |-> r.raised, ret |-> r.val]
    /\ emptyTrainRun' = 0
    /\ UNCHANGED <<pc, fields, params>>

SetParams ==
    /\ \E wb \in WeightBigramsValues, wt \in WeightTrigramsValues, th \in ThresholdValues :
        /\ weight_bigrams' = wb
        /\ weight_trigrams' = wt
        /\ threshold' = th
        /\ lastCall' = [op |-> "set_params", arg |-> <<wb, wt, th>>,
                        raised |-> "none", ret |-> <<>>]
    /\ emptyTrainRun' = 0
    /\ UNCHANGED <<pc, fields>>

Next == Construct \/ Train \/ Classify \/ SetParams

Spec == Init /\ [][Next]_vars

\* ---- properties ----
TrainOps == {"__init__", "train"}
DocsOf(n) == {pos_documents[n], neg_documents[n]}
NgramsIn(docs) == UNION {Terms(docs[i]) : i \in DOMAIN docs}
HasExample(training_data, cls) ==
    \E i \in DOMAIN training_data :
        training_data[i][1] = cls /\ extract_words(training_data[i][2]) # <<>>
\* the documents of order n that the examples of class cls with words contribute
Ingested(training_data, cls, n) ==
    LET sel == SelectSeq(training_data,
                         LAMBDA e : e[1] = cls /\ extract_words(e[2]) # <<>>)
    IN  [i \in 1..Len(sel) |-> get_ngrams(n, extract_words(sel[i][2]))]
IsPrefix(s, t) == Len(s) <= Len(t) /\ SubSeq(t, 1, Len(s)) = s

\* C1: a train call (the constructor's included) on a training set with a
\* positive and a negative example with words returns normally, and then every
\* order with an n-gram has a non-empty vocabulary and centroid keys within it.
C1_TrainCompletes ==
    (/\ lastCall.op \in TrainOps
     /\ HasExample(lastCall.arg, TRUE)
     /\ HasExample(lastCall.arg, FALSE))
    => /\ lastCall.raised = "none"
       /\ \A n \in Orders :
            /\ (\E docs \in DocsOf(n) : NgramsIn(docs) # {}) => vocab[n] # {}
            /\ DOMAIN pos_centroid[n] \subseteq vocab[n]
            /\ DOMAIN neg_centroid[n] \subseteq vocab[n]

\* C2: after a train call, a class with no document at order n has the empty
\* centroid at that order and the call has not raised.
C2_EmptyClassNoRaise ==
    lastCall.op \in TrainOps =>
        \A n \in Orders :
            /\ pos_documents[n] = <<>> => (lastCall.raised = "none" /\ pos_centroid[n] = <<>>)
            /\ neg_documents[n] = <<>> => (lastCall.raised = "none" /\ neg_centroid[n] = <<>>)

\* C3: classify on a message without words returns exactly (False, 0.0) and
\* raises nothing, in every classifier state and under every hyperparameters.
C3_EmptyMessageFallback ==
    (lastCall.op = "classify" /\ extract_words(lastCall.arg) = <<>>)
    => (lastCall.raised = "none" /\ lastCall.ret = <<FALSE, 0>>)

C3_Witness ==
    /\ lastCall.op = "classify"
    /\ lastCall.arg = <<"?">>
    /\ lastCall.ret = <<FALSE, 0>>
    /\ weight_bigrams = 0 - One
    /\ vocab[3] # {}

\* C4: classify never raises from the logarithm or from a division.
C4_NoNumericFault ==
    lastCall.op = "classify" => lastCall.raised \notin {"ValueError", "ZeroDivisionError"}

\* C5: in a train call the examples without words add nothing to the six
\* document lists and the three vocabularies, and every other example of the
\* call is ingested, in order.
C5_SkipWordless ==
    [][lastCall'.op \in TrainOps =>
        \A n \in Orders :
            /\ pos_documents'[n] = pos_documents[n] \o Ingested(lastCall'.arg, TRUE, n)
            /\ neg_documents'[n] = neg_documents[n] \o Ingested(lastCall'.arg, FALSE, n)
            /\ vocab'[n] = vocab[n] \cup NgramsIn(Ingested(lastCall'.arg, TRUE, n))
                                    \cup NgramsIn(Ingested(lastCall'.arg, FALSE, n))]_vars

C5_Witness ==
    /\ lastCall.op \in TrainOps
    /\ Len(lastCall.arg) = 2
    /\ extract_words(lastCall.arg[1][2]) = <<>>
    /\ extract_words(lastCall.arg[2][2]) # <<>>
    /\ Len(pos_documents[1]) + Len(neg_documents[1]) = 2

C8_InvIndexCounts ==
    \A n \in Orders : \A docs \in DocsOf(n) :
        LET inv_index == build_inv_index(docs)
        IN  \A i \in DOMAIN docs : \A t \in Terms(docs[i]) :
                /\ t \in DOMAIN inv_index
                /\ Cardinality(DOMAIN inv_index[t]) >= 1
                /\ (i - 1) \in DOMAIN inv_index[t]
                /\ inv_index[t][i - 1] = Count(t, docs[i])

\* C9: for a non-empty document list get_centroid returns, for every term of
\* the tf-idf table, the sum of the term's weights over the documents divided
\* by the number of documents.
C9_CentroidIsAverage ==
    \A n \in Orders : \A docs \in DocsOf(n) :
        Len(docs) > 0 =>
            LET r == get_centroid(vocab[n], docs)
                t == compute_tfidf(docs)
            IN  /\ r.raised = "none"
                /\ t.raised = "none"
                /\ DOMAIN r.val = DOMAIN t.val.tfidf
                /\ \A word \in DOMAIN r.val :
                        r.val[word] = Div(SumOver(t.val.tfidf[word],
                                                  DOMAIN t.val.tfidf[word]),
                                          Len(docs) * One)

\* C10: each vocabulary is exactly the set of n-grams of the documents of its
\* order, and no step removes a vocabulary element or a document.
VocabExact ==
    \A n \in Orders :
        vocab[n] = NgramsIn(pos_documents[n]) \cup NgramsIn(neg_documents[n])
OnlyGrows ==
    \A n \in Orders :
        /\ vocab[n] \subseteq vocab'[n]
        /\ IsPrefix(pos_documents[n], pos_documents'[n])
        /\ IsPrefix(neg_documents[n], neg_documents'[n])
C10_VocabExactAndGrows == []VocabExact /\ [][OnlyGrows]_vars

C10_Witness ==
    /\ lastCall.op = "train"
    /\ pos_documents[1] # <<>>
    /\ neg_documents[1] # <<>>
    /\ vocab[1] = {<<"a">>, <<"b">>}
    /\ vocab[3] # {}

====
